---- MODULE Spec2Model ----
(***************************************************************************)
(* Build-vs-buy Monte Carlo simulator (build_buy_app/src/simulation.py).   *)
(*                                                                         *)
(* Representation of the program's numbers:                                *)
(*   - money is an integer number of dollars; every arithmetic result on   *)
(*     money is rounded by Fl to a significand of ManBits bits, the way    *)
(*     an IEEE double rounds every result to 53 bits (scaled down so that  *)
(*     rounding is visible at dollar magnitudes);                          *)
(*   - dimensionless factors (discount factors, probabilities, risk        *)
(*     multipliers) are fixed-point with One standing for 1.0;             *)
(*   - build_timeline is counted in half months and useful_life in half    *)
(*     years (Half units per month/year), so that np.round has halves to   *)
(*     round; percentages are whole percents;                              *)
(*   - a standard-normal draw of the generator is an integer z in          *)
(*     -ZMax..ZMax, so np.random.normal(mean, std) = mean + std * z.       *)
(***************************************************************************)
EXTENDS Integers, Sequences, FiniteSets, TLC

\* ------------------------------------------------------------------------
\* Units of the representation
\* ------------------------------------------------------------------------
One == 100 * 100          \* fixed-point 1.0 of a factor
Half == 1 + 1             \* units per month (timeline) and per year (life)
ManBits == 2 * 8          \* significand bits kept by Fl
TwoP == 2 ^ ManBits

\* ------------------------------------------------------------------------
\* Bounds of the model
\* ------------------------------------------------------------------------
MaxSim == 3               \* largest n_simulations an instance is built with

\* ------------------------------------------------------------------------
\* Arithmetic
\* ------------------------------------------------------------------------
Abs(x) == IF x < 0 THEN -x ELSE x

Max2(a, b) == IF a >= b THEN a ELSE b

\* a / b rounded to nearest, b > 0
RoundDiv(a, b) ==
    IF a >= 0 THEN (a + (b \div 2)) \div b ELSE -((-a + (b \div 2)) \div b)

RECURSIVE UlpFrom(_, _)
UlpFrom(a, u) == IF a \div u < TwoP THEN u ELSE UlpFrom(a, 2 * u)

\* floating-point rounding of a money value: nearest value with ManBits
\* significant bits, ties to even
Fl(x) ==
    LET a == Abs(x)
        u == UlpFrom(a, 1)
        q == a \div u
        r == a % u
        up == (2 * r > u) \/ (2 * r = u /\ q % 2 = 1)
        m == IF up THEN (q + 1) * u ELSE q * u
    IN  IF x < 0 THEN -m ELSE m

FAdd(a, b) == Fl(a + b)

FSub(a, b) == Fl(a - b)

\* money * factor and money / factor, the factor in fixed point (f >= 0)
MulFix(a, f) ==
    LET m == Abs(a)
        v == (m \div One) * f + RoundDiv((m % One) * f, One)
    IN  IF a < 0 THEN -v ELSE v

DivFix(a, f) ==
    LET m == Abs(a)
        v == (m \div f) * One + RoundDiv((m % f) * One, f)
    IN  IF a < 0 THEN -v ELSE v

FMul(a, f) == Fl(MulFix(a, f))

FDiv(a, f) == Fl(DivFix(a, f))

\* factor * factor and factor / factor
FxMul(f, g) == RoundDiv(f * g, One)

FxDiv(f, g) == RoundDiv(f * One, g)

RECURSIVE PowI(_, _)
\* f ** k for a whole k >= 0
PowI(f, k) ==
    IF k = 0 THEN One
    ELSE IF k % 2 = 1 THEN FxMul(PowI(f, k - 1), f)
    ELSE LET h == PowI(f, k \div 2) IN FxMul(h, h)

RECURSIVE RootSearch(_, _, _, _)
\* the largest r in lo..hi with r ** k <= f (k = 2 or 3), by bisection
RootSearch(f, k, lo, hi) ==
    IF lo >= hi THEN lo
    ELSE LET mid == (lo + hi + 1) \div 2
         IN  IF PowI(mid, k) <= f
             THEN RootSearch(f, k, mid, hi)
             ELSE RootSearch(f, k, lo, mid - 1)

Sqrt(f) == RootSearch(f, 2, 0, Max2(f, One))

Cbrt(f) == RootSearch(f, 3, 0, Max2(f, One))

\* the discount bases 1 + wacc of the whole-percent rates from -50% to 100%
Bases == {One + w * (One \div 100) : w \in (0 - 50)..100}

\* f ** (1/2), (1/4), (1/8), (1/16) and (1/48) of every base f
Roots ==
    [f \in Bases |->
        LET r2 == Sqrt(f)
            r4 == Sqrt(r2)
            r8 == Sqrt(r4)
            r16 == Sqrt(r8)
        IN  << r2, r4, r8, r16, Cbrt(r16) >>]

\* f ** (e / 48) for e >= 0: the float power (1 + wacc) ** x of the code at
\* the exponents the code uses (whole years, half years, fractions of a year
\* in half months, and the twelfth of a year of the monthly rate)
Pow48(f, e) ==
    LET r == Roots[f]
        m == e % 48
        p0 == PowI(f, e \div 48)
        p1 == IF (m \div 24) % 2 = 1 THEN FxMul(p0, r[1]) ELSE p0
        p2 == IF (m \div 12) % 2 = 1 THEN FxMul(p1, r[2]) ELSE p1
        p3 == IF (m \div 6) % 2 = 1 THEN FxMul(p2, r[3]) ELSE p2
        p4 == IF (m \div 3) % 2 = 1 THEN FxMul(p3, r[4]) ELSE p3
    IN  FxMul(p4, PowI(r[5], m % 3))

\* np.round of a value counted in halves: round half to even
RoundHalf(t) ==
    LET q == t \div Half
    IN  IF t % Half = 0 THEN q
        ELSE IF q % 2 = 0 THEN q ELSE q + 1

RECURSIVE SumSeq(_)
SumSeq(s) == IF s = << >> THEN 0 ELSE FAdd(SumSeq(SubSeq(s, 1, Len(s) - 1)), s[Len(s)])


\* ------------------------------------------------------------------------
\* The generator behind np.random: one process-wide state, set by
\* np.random.seed and advanced by every draw of np.random.normal
\* ------------------------------------------------------------------------
RngMod == 2 ^ 4

ZMax == 2                 \* a draw is a whole number of standard deviations

DefaultSeed == 42

Seeds == {DefaultSeed, 7}

SeedState(seed) == seed % RngMod

RngStep(s) == (5 * s + 3) % RngMod

Gauss(s) == (s % (2 * ZMax + 1)) - ZMax

RECURSIVE AdvanceN(_, _)
\* the generator state after n draws
AdvanceN(s, n) == IF n = 0 THEN s ELSE AdvanceN(RngStep(s), n - 1)

\* np.random.normal(0, 1, n) read off state s: draw k is taken from the k-th
\* state after s
StdNormal(s, n) == [k \in 1..n |-> Gauss(AdvanceN(s, k))]

\* ------------------------------------------------------------------------
\* Raw parameter values of the input mapping
\* ------------------------------------------------------------------------
Num(v) == [k |-> "num", v |-> v]           \* an int or float

NumStr(v) == [k |-> "numstr", v |-> v]     \* a string float() can parse

Absent == [k |-> "absent", v |-> 0]        \* key not in the mapping

None == [k |-> "none", v |-> 0]            \* key present with value None

EmptyStr == [k |-> "empty", v |-> 0]       \* the string ""

BadStr == [k |-> "bad", v |-> 0]           \* a string float() cannot parse

Selector(s) == [k |-> "list", v |-> s]     \* buy_selector given as a list

NoSelector == [k |-> "absent", v |-> {}]

NoneSelector == [k |-> "none", v |-> {}]

NumericKeys ==
    {"build_timeline", "build_timeline_std", "fte_cost", "fte_cost_std",
     "fte_count", "useful_life", "prob_success", "wacc", "misc_costs",
     "tech_risk", "vendor_risk", "market_risk",
     "maint_opex", "maint_opex_std", "capex", "amortization",
     "product_price", "subscription_price", "subscription_increase"}

\* the default applied to an absent key and to None only: "... or d" left out
FalsyMissingOnly(x) == x.k \in {"absent", "none"}

\* params.get(key, d) or d: the value float() is applied to is d when the
\* key is absent or its value is falsy (None, 0, 0.0, "")
Falsy(x) == x.k \in {"absent", "none", "empty"} \/ (x.k = "num" /\ x.v = 0)

\* float(...) raises ValueError on a string it cannot parse
FloatRaises(x) == x.k = "bad"

FloatOr(x, d) == IF Falsy(x) THEN d ELSE x.v

Clip(x, lo, hi) == IF x < lo THEN lo ELSE IF x > hi THEN hi ELSE x

\* a percentage as a fraction in fixed point
Pct(x) == x * (One \div 100)

\* ------------------------------------------------------------------------
\* Parameter extraction
\* ------------------------------------------------------------------------
\* _extract_core_parameters without np.clip on prob_success and without
\* max(..., 0) on the two *_std fields
ExtractCoreUnclipped(params) ==
    [build_timeline |-> FloatOr(params.build_timeline, 12 * Half),
     build_timeline_std |-> FloatOr(params.build_timeline_std, 0),
     fte_cost |-> FloatOr(params.fte_cost, 150000),
     fte_cost_std |-> FloatOr(params.fte_cost_std, 0),
     fte_count |-> FloatOr(params.fte_count, 1),
     useful_life |-> FloatOr(params.useful_life, 5 * Half),
     prob_success |-> Pct(FloatOr(params.prob_success, 80)),
     wacc |-> Pct(FloatOr(params.wacc, 8)),
     misc_costs |-> FloatOr(params.misc_costs, 0)]

_extract_core_parameters(params) ==
    [build_timeline |-> FloatOr(params.build_timeline, 12 * Half),
     build_timeline_std |-> Max2(FloatOr(params.build_timeline_std, 0), 0),
     fte_cost |-> FloatOr(params.fte_cost, 150000),
     fte_cost_std |-> Max2(FloatOr(params.fte_cost_std, 0), 0),
     fte_count |-> FloatOr(params.fte_count, 1),
     useful_life |-> FloatOr(params.useful_life, 5 * Half),
     prob_success |-> Clip(Pct(FloatOr(params.prob_success, 80)), Pct(1), One),
     wacc |-> Pct(FloatOr(params.wacc, 8)),
     misc_costs |-> FloatOr(params.misc_costs, 0)]

_extract_risk_parameters(params) ==
    [tech_risk |-> FloatOr(params.tech_risk, 0),
     vendor_risk |-> FloatOr(params.vendor_risk, 0),
     market_risk |-> FloatOr(params.market_risk, 0)]

_extract_cost_parameters(params) ==
    [maint_opex |-> FloatOr(params.maint_opex, 0),
     maint_opex_std |-> Max2(FloatOr(params.maint_opex_std, 0), 0),
     capex |-> FloatOr(params.capex, 0),
     amortization |-> FloatOr(params.amortization, 0)]

\* params.get('buy_selector', []): the default applies to an absent key only
_extract_buy_parameters(params) ==
    [product_price |-> FloatOr(params.product_price, 0),
     subscription_price |-> FloatOr(params.subscription_price, 0),
     subscription_increase |-> FloatOr(params.subscription_increase, 0),
     buy_selector |-> IF params.buy_selector.k = "absent"
                      THEN Selector({}) ELSE params.buy_selector]

\* one of the float() calls of the four extractors raises
ExtractRaises(params) == \E f \in NumericKeys : FloatRaises(params[f])

\* ------------------------------------------------------------------------
\* Sampling
\* ------------------------------------------------------------------------
\* _generate_samples without the np.where that replaces the samples <= 0
GenerateSamplesUnfiltered(mean, std, n_sim, zs) ==
    IF std > 0
    THEN [i \in 1..n_sim |-> FAdd(mean, Fl(std * zs[i]))]
    ELSE [i \in 1..n_sim |-> mean]

\* np.random.normal(mean, std, n) with the draws zs, then the samples <= 0
\* replaced by mean; the constant vector when std is not positive
_generate_samples(mean, std, n_sim, zs) ==
    IF std > 0
    THEN [i \in 1..n_sim |->
            LET x == FAdd(mean, Fl(std * zs[i]))
            IN  IF x <= 0 THEN mean ELSE x]
    ELSE [i \in 1..n_sim |-> mean]

\* the number of generator draws _generate_samples makes
SampleDraws(std, n_sim) == IF std > 0 THEN n_sim ELSE 0

\* ------------------------------------------------------------------------
\* Present values
\* ------------------------------------------------------------------------
YearUnits == 12 * Half    \* timeline units in one year

RECURSIVE FullYearsPV(_, _, _)
\* pv after the loop "for year in range(years_full)"
FullYearsPV(cost_per_year, years_full, wacc) ==
    IF years_full <= 0 THEN 0
    ELSE FAdd(FullYearsPV(cost_per_year, years_full - 1, wacc),
              FDiv(cost_per_year,
                   Pow48(One + wacc, 2 * YearUnits * (years_full - 1) + YearUnits)))

\* the labor cost discounted from the end of the build timeline
LaborPVEndOfTimeline(labor_cost, timeline, wacc) ==
    FDiv(labor_cost, Pow48(One + wacc, 2 * timeline))

\* LaborPV without the slice of the partial last year
LaborPVNoPartial(labor_cost, timeline, wacc) ==
    IF timeline <= YearUnits
    THEN FDiv(labor_cost, Pow48(One + wacc, YearUnits))
    ELSE FullYearsPV(Fl(RoundDiv(labor_cost * YearUnits, timeline)),
                     timeline \div YearUnits, wacc)

\* the whole labor cost discounted from six months, however long the build
LaborPVSingleMidpoint(labor_cost, timeline, wacc) ==
    FDiv(labor_cost, Pow48(One + wacc, YearUnits))

\* one iteration of the loop of _calculate_labor_pv_year_by_year
LaborPV(labor_cost, timeline, wacc) ==
    IF timeline <= YearUnits
    THEN FDiv(labor_cost, Pow48(One + wacc, YearUnits))
    ELSE LET years_full == timeline \div YearUnits
             remaining == timeline % YearUnits
             cost_per_year == Fl(RoundDiv(labor_cost * YearUnits, timeline))
             full == FullYearsPV(cost_per_year, years_full, wacc)
             partial_year_cost == Fl(RoundDiv(cost_per_year * remaining, YearUnits))
         IN  IF remaining > 0
             THEN FAdd(full, FDiv(partial_year_cost,
                                  Pow48(One + wacc,
                                        2 * YearUnits * years_full + remaining)))
             ELSE full

_calculate_labor_pv_year_by_year(nominal_labor, timeline_samples, wacc) ==
    [i \in 1..Len(nominal_labor) |->
        LaborPV(nominal_labor[i], timeline_samples[i], wacc)]

RECURSIVE AnnuityFrom(_, _, _, _, _)
\* pv after the terms k..periods are added to pv, in this order (the test
\* of the running sum has it evaluated before the next term is added)
AnnuityFrom(pv, amount, rate, k, periods) ==
    IF k > periods THEN pv
    ELSE LET sum == FAdd(pv, FDiv(amount, PowI(rate, k)))
         IN  IF sum \in Int
             THEN AnnuityFrom(sum, amount, rate, k + 1, periods)
             ELSE sum

\* the annuity charged for one period at least
AnnuityPVAtLeastOne(amount, rate, periods) ==
    AnnuityFrom(0, amount, rate, 1, Max2(periods, 1))

\* sum(amount / rate ** k for k in range(1, periods + 1))
AnnuityPV(amount, rate, periods) == AnnuityFrom(0, amount, rate, 1, periods)

_calculate_amortization_pv(amortization, timeline_samples, wacc) ==
    IF amortization <= 0
    THEN [i \in 1..Len(timeline_samples) |-> 0]
    ELSE LET monthly_rate == Pow48(One + wacc, 2 * Half) - One
         IN  [i \in 1..Len(timeline_samples) |->
                AnnuityPV(amortization, One + monthly_rate,
                          RoundHalf(timeline_samples[i]))]

\* zs are the draws of the opex samples (read only when they are drawn)
_calculate_opex_pv(cost_params, core_params, n_sim, zs) ==
    IF cost_params.maint_opex <= 0
    THEN [i \in 1..n_sim |-> 0]
    ELSE LET opex_samples == _generate_samples(cost_params.maint_opex,
                                               cost_params.maint_opex_std, n_sim, zs)
             useful_life == RoundHalf(core_params.useful_life)
         IN  [i \in 1..n_sim |->
                AnnuityPV(opex_samples[i], One + core_params.wacc, useful_life)]

\* the opex samples drawn whether or not there is any opex
OpexDrawsAlways(cost_params, n_sim) == SampleDraws(cost_params.maint_opex_std, n_sim)

OpexDraws(cost_params, n_sim) ==
    IF cost_params.maint_opex <= 0 THEN 0
    ELSE SampleDraws(cost_params.maint_opex_std, n_sim)

\* ------------------------------------------------------------------------
\* Risk
\* ------------------------------------------------------------------------
\* the three percentages compounded, (1+tech)(1+vendor)(1+market) - 1, to the
\* nearest whole percent
TotalRiskCompounded(risk_params) ==
    RoundDiv((100 + risk_params.tech_risk) * (100 + risk_params.vendor_risk)
                 * (100 + risk_params.market_risk), 10000) - 100

TotalRisk(risk_params) ==
    risk_params.tech_risk + risk_params.vendor_risk + risk_params.market_risk

\* np.random.normal(0, 0.05, n_sim): 0.05 * z in fixed point
RiskVariation(z) == z * (One \div 20)

\* RiskMultipliers without the floor of np.clip(..., 1.0, None)
RiskMultipliersUnclipped(risk_params, n_sim, zs) ==
    LET risk_multiplier == One + Pct(TotalRisk(risk_params))
    IN  IF TotalRisk(risk_params) <= 0 THEN [i \in 1..n_sim |-> One]
        ELSE IF n_sim > 1
        THEN [i \in 1..n_sim |->
                FxMul(risk_multiplier, One + RiskVariation(zs[i]))]
        ELSE [i \in 1..n_sim |-> risk_multiplier]

\* RiskMultipliers with the variation added to the multiplier
RiskMultipliersAdditive(risk_params, n_sim, zs) ==
    LET risk_multiplier == One + Pct(TotalRisk(risk_params))
    IN  IF TotalRisk(risk_params) <= 0 THEN [i \in 1..n_sim |-> One]
        ELSE IF n_sim > 1
        THEN [i \in 1..n_sim |->
                Max2(risk_multiplier + RiskVariation(zs[i]), One)]
        ELSE [i \in 1..n_sim |-> risk_multiplier]

\* the multiplier of each simulation (1.0 where no risk is applied)
RiskMultipliers(risk_params, n_sim, zs) ==
    LET risk_multiplier == One + Pct(TotalRisk(risk_params))
    IN  IF TotalRisk(risk_params) <= 0 THEN [i \in 1..n_sim |-> One]
        ELSE IF n_sim > 1
        THEN [i \in 1..n_sim |->
                Max2(FxMul(risk_multiplier, One + RiskVariation(zs[i])), One)]
        ELSE [i \in 1..n_sim |-> risk_multiplier]

\* _apply_risk_factors without the early return on total_risk_percent <= 0
ApplyRiskAlways(costs, risk_params, n_sim, zs) ==
    LET risk_multiplier == One + Pct(Max2(TotalRisk(risk_params), 0))
    IN  [i \in 1..Len(costs) |->
            FMul(costs[i],
                 IF n_sim > 1
                 THEN Max2(FxMul(risk_multiplier, One + RiskVariation(zs[i])), One)
                 ELSE risk_multiplier)]

\* _apply_risk_factors returning early on a total of exactly 0 only
ApplyRiskUnlessZero(costs, risk_params, n_sim, zs) ==
    IF TotalRisk(risk_params) = 0 THEN costs
    ELSE LET risk_multiplier == One + Pct(TotalRisk(risk_params))
         IN  [i \in 1..Len(costs) |->
                FMul(costs[i],
                     IF n_sim > 1
                     THEN Max2(FxMul(risk_multiplier, One + RiskVariation(zs[i])), One)
                     ELSE risk_multiplier)]

_apply_risk_factors(costs, risk_params, n_sim, zs) ==
    IF TotalRisk(risk_params) <= 0 THEN costs
    ELSE LET risk_multipliers == RiskMultipliers(risk_params, n_sim, zs)
         IN  [i \in 1..Len(costs) |-> FMul(costs[i], risk_multipliers[i])]

RiskDraws(risk_params, n_sim) ==
    IF TotalRisk(risk_params) > 0 /\ n_sim > 1 THEN n_sim ELSE 0

\* ------------------------------------------------------------------------
\* Clean-up of the cost vector
\* ------------------------------------------------------------------------
NonFinite == -(2 ^ 30)    \* stands for NaN and the infinities

IsFinite(x) == x # NonFinite

\* _clean_samples with the invalid entries replaced by 0
CleanSamplesZeroFill(samples) ==
    [i \in 1..Len(samples) |-> IF IsFinite(samples[i]) THEN samples[i] ELSE 0]

_clean_samples(samples) ==
    LET valid == SelectSeq(samples, IsFinite)
    IN  IF valid # << >>
        THEN LET mean_valid == Fl(RoundDiv(SumSeq(valid), Len(valid)))
             IN  [i \in 1..Len(samples) |->
                    IF IsFinite(samples[i]) THEN samples[i] ELSE mean_valid]
        ELSE [i \in 1..Len(samples) |-> 0]

\* ------------------------------------------------------------------------
\* Buy costs
\* ------------------------------------------------------------------------
RECURSIVE SubscriptionFlat(_, _, _, _, _)
\* the subscription loop with the payment never escalated
SubscriptionFlat(start, subscription_price, subscription_increase, wacc, useful_life) ==
    IF useful_life <= 0 THEN start
    ELSE FAdd(SubscriptionFlat(start, subscription_price, subscription_increase,
                               wacc, useful_life - 1),
              FDiv(subscription_price, PowI(One + wacc, useful_life)))

RECURSIVE SubscriptionImmediate(_, _, _, _, _)
\* the subscription loop with the first payment immediate and undiscounted
SubscriptionImmediate(start, subscription_price, subscription_increase, wacc, useful_life) ==
    IF useful_life <= 0 THEN start
    ELSE LET year == useful_life - 1
             payment == FMul(subscription_price,
                             PowI(One + subscription_increase, year))
         IN  FAdd(SubscriptionImmediate(start, subscription_price,
                                        subscription_increase, wacc, year),
                  FDiv(payment, PowI(One + wacc, year)))

RECURSIVE SubscriptionPV(_, _, _, _, _)
\* buy_total_cost after the loop "for year in range(1, useful_life + 1)",
\* entered with buy_total_cost = start
SubscriptionPV(start, subscription_price, subscription_increase, wacc, useful_life) ==
    IF useful_life <= 0 THEN start
    ELSE LET year == useful_life
             payment == FMul(subscription_price,
                             PowI(One + subscription_increase, year - 1))
             pv == FDiv(payment, PowI(One + wacc, year))
         IN  FAdd(SubscriptionPV(start, subscription_price, subscription_increase,
                                 wacc, useful_life - 1), pv)

\* 'one_time' in None raises TypeError
BuyRaises(buy_params) == buy_params.buy_selector.k = "none"

\* _calculate_buy_costs with "elif" for the subscription branch
BuyCostsExclusive(buy_params, core_params) ==
    LET buy_selector == buy_params.buy_selector.v
    IN  IF "one_time" \in buy_selector THEN FAdd(0, buy_params.product_price)
        ELSE IF "subscription" \in buy_selector
        THEN SubscriptionPV(0, buy_params.subscription_price,
                            Pct(buy_params.subscription_increase),
                            core_params.wacc, RoundHalf(core_params.useful_life))
        ELSE 0

\* _calculate_buy_costs with useful_life truncated by int() without np.round
BuyCostsTruncatedLife(buy_params, core_params) ==
    LET buy_selector == buy_params.buy_selector.v
        one_time == IF "one_time" \in buy_selector
                    THEN FAdd(0, buy_params.product_price) ELSE 0
    IN  IF "subscription" \in buy_selector
        THEN SubscriptionPV(one_time, buy_params.subscription_price,
                            Pct(buy_params.subscription_increase),
                            core_params.wacc, core_params.useful_life \div Half)
        ELSE one_time

_calculate_buy_costs(buy_params, core_params) ==
    LET buy_selector == buy_params.buy_selector.v
        one_time == IF "one_time" \in buy_selector
                    THEN FAdd(0, buy_params.product_price) ELSE 0
    IN  IF "subscription" \in buy_selector
        THEN SubscriptionPV(one_time, buy_params.subscription_price,
                            Pct(buy_params.subscription_increase),
                            core_params.wacc, RoundHalf(core_params.useful_life))
        ELSE one_time

\* ------------------------------------------------------------------------
\* Results
\* ------------------------------------------------------------------------
\* the samples in the order they were drawn
Unsorted(s) == s

\* the ascending rearrangement of s
Sorted(s) ==
    [k \in 1..Len(s) |->
        CHOOSE x \in {s[i] : i \in 1..Len(s)} :
            /\ Cardinality({i \in 1..Len(s) : s[i] < x}) < k
            /\ k <= Cardinality({i \in 1..Len(s) : s[i] <= x})]

\* np.percentile(a, q): linear interpolation between the two order statistics
\* around the virtual index q/100 * (n - 1)
Percentile(a, q) ==
    LET s == Sorted(a)
        n == Len(s)
        pos == q * (n - 1)
        lo == pos \div 100
        t == pos % 100
        x == s[lo + 1]
        y == s[IF lo + 2 <= n THEN lo + 2 ELSE n]
        d == FSub(y, x)
    IN  IF t < 50 THEN FAdd(x, Fl(RoundDiv(d * t, 100)))
        ELSE FSub(y, Fl(RoundDiv(d * (100 - t), 100)))

Mean(a) == Fl(RoundDiv(SumSeq(a), Len(a)))

\* the comparison with the tie resolved the other way
RecommendTieBuild(npv_difference) ==
    IF npv_difference >= 0 THEN "Build" ELSE "Buy"

Recommend(npv_difference) == IF npv_difference > 0 THEN "Build" ELSE "Buy"

\* _calculate_results without the 'cost_distribution' entry
ResultsSummaryOnly(build_cost_distribution, buy_total_cost) ==
    LET expected_build_cost == Mean(build_cost_distribution)
        npv_difference == FSub(buy_total_cost, expected_build_cost)
    IN  [expected_build_cost |-> expected_build_cost,
         build_cost_p10 |-> Percentile(build_cost_distribution, 10),
         build_cost_p50 |-> Percentile(build_cost_distribution, 50),
         build_cost_p90 |-> Percentile(build_cost_distribution, 90),
         risk_adjusted_cost |-> Percentile(build_cost_distribution, 90),
         buy_total_cost |-> buy_total_cost,
         npv_difference |-> npv_difference,
         recommendation |-> Recommend(npv_difference)]

_calculate_results(build_cost_distribution, buy_total_cost) ==
    LET expected_build_cost == Mean(build_cost_distribution)
        ci_low == Percentile(build_cost_distribution, 10)
        ci_high == Percentile(build_cost_distribution, 90)
        ci_median == Percentile(build_cost_distribution, 50)
        npv_difference == FSub(buy_total_cost, expected_build_cost)
    IN  [expected_build_cost |-> expected_build_cost,
         build_cost_p10 |-> ci_low,
         build_cost_p50 |-> ci_median,
         build_cost_p90 |-> ci_high,
         risk_adjusted_cost |-> ci_high,
         buy_total_cost |-> buy_total_cost,
         npv_difference |-> npv_difference,
         recommendation |-> Recommend(npv_difference),
         cost_distribution |-> build_cost_distribution]

\* ------------------------------------------------------------------------
\* Inputs
\* ------------------------------------------------------------------------
\* the empty mapping {}
EmptyParams ==
    [f \in NumericKeys |-> Absent] @@ [buy_selector |-> NoSelector]

\* Example 1 of the validation scripts: 12 months, 2 FTE at 120000, no
\* uncertainty, prob_success 100, wacc 10, one-time purchase at 300000
Example1 ==
    [EmptyParams EXCEPT
        !.build_timeline = Num(12 * Half), !.fte_cost = Num(120000),
        !.fte_count = Num(2), !.useful_life = Num(5 * Half),
        !.prob_success = Num(100), !.wacc = Num(10),
        !.product_price = Num(300000), !.buy_selector = Selector({"one_time"})]

\* ------------------------------------------------------------------------
\* State
\* ------------------------------------------------------------------------
Insts == 1..3

VARIABLES
    n_simulations,  \* self.n_simulations of each instance (0: not constructed)
    random_seed,    \* self.random_seed of each instance
    rng,            \* the state of the process-wide generator np.random
    frame           \* the simulate() call of each instance: its position,
                    \* its argument, its locals and the result it returned

vars == << n_simulations, random_seed, rng, frame >>

Resting == {"idle", "done", "raised"}

NoResult == [recommendation |-> "none"]

NewFrame(params) ==
    [pc |-> "seed",
     params |-> params,
     core_params |-> _extract_core_parameters(EmptyParams),
     risk_params |-> _extract_risk_parameters(EmptyParams),
     cost_params |-> _extract_cost_parameters(EmptyParams),
     buy_params |-> _extract_buy_parameters(EmptyParams),
     timeline_samples |-> << >>,
     fte_cost_samples |-> << >>,
     labor_cost_pv |-> << >>,
     amortization_pv |-> << >>,
     opex_pv |-> << >>,
     total_cost_pv |-> << >>,
     risk_multipliers |-> << >>,
     build_cost_distribution |-> << >>,
     log |-> << >>,
     results |-> NoResult]

IdleFrame == [NewFrame(EmptyParams) EXCEPT !.pc = "idle"]

\* __init__ of the instances: ns and seeds give each instance's
\* n_simulations (0 for an instance that is not constructed) and random_seed.
\* The process-wide generator starts in a state nobody chose.
Construct(ns, seeds) ==
    /\ n_simulations = ns
    /\ random_seed = seeds
    /\ rng \in 0..(RngMod - 1)
    /\ frame = [i \in Insts |-> IdleFrame]

\* ------------------------------------------------------------------------
\* simulate(), one action per step between two uses of the generator
\* ------------------------------------------------------------------------
\* simulate(params) is entered on instance i; calls do not overlap
Call(i, params) ==
    /\ n_simulations[i] > 0
    /\ \A j \in Insts : frame[j].pc \in Resting
    /\ frame' = [frame EXCEPT ![i] = NewFrame(params)]
    /\ UNCHANGED << n_simulations, random_seed, rng >>

\* simulate() entered without reseeding the generator
SeedStepSkipped(i) ==
    /\ frame[i].pc = "seed"
    /\ frame' = [frame EXCEPT ![i].pc = "extract",
                              ![i].log = Append(@, [op |-> "seed", n |-> 0])]
    /\ UNCHANGED << n_simulations, random_seed, rng >>

\* np.random.seed(self.random_seed)
SeedStep(i) ==
    /\ frame[i].pc = "seed"
    /\ rng' = SeedState(random_seed[i])
    /\ frame' = [frame EXCEPT ![i].pc = "extract",
                              ![i].log = Append(@, [op |-> "seed", n |-> 0])]
    /\ UNCHANGED << n_simulations, random_seed >>

\* the four _extract_*_parameters calls
Extract(i) ==
    LET f == frame[i]
    IN  /\ f.pc = "extract"
        /\ frame' = [frame EXCEPT ![i] =
             IF ExtractRaises(f.params)
             THEN [f EXCEPT !.pc = "raised"]
             ELSE [f EXCEPT !.pc = "timeline",
                            !.core_params = _extract_core_parameters(f.params),
                            !.risk_params = _extract_risk_parameters(f.params),
                            !.cost_params = _extract_cost_parameters(f.params),
                            !.buy_params = _extract_buy_parameters(f.params)]]
        /\ UNCHANGED << n_simulations, random_seed, rng >>

\* the log of a call after a use of the generator that made d draws
Logged(log, op, d) == IF d > 0 THEN Append(log, [op |-> op, n |-> d]) ELSE log

\* timeline_samples = self._generate_samples(build_timeline, ...)
SampleTimeline(i) ==
    LET f == frame[i]
        n_sim == n_simulations[i]
        d == SampleDraws(f.core_params.build_timeline_std, n_sim)
    IN  /\ f.pc = "timeline"
        /\ rng' = AdvanceN(rng, d)
        /\ frame' = [frame EXCEPT ![i] =
             [f EXCEPT !.pc = "fte_cost",
                       !.timeline_samples =
                           _generate_samples(f.core_params.build_timeline,
                                             f.core_params.build_timeline_std,
                                             n_sim, StdNormal(rng, n_sim)),
                       !.log = Logged(f.log, "timeline", d)]]
        /\ UNCHANGED << n_simulations, random_seed >>

\* the FTE-cost step with the generator seeded again before its draws
SampleFteCostReseeded(i) ==
    LET f == frame[i]
        n_sim == n_simulations[i]
        d == SampleDraws(f.core_params.fte_cost_std, n_sim)
        s == SeedState(random_seed[i])
    IN  /\ f.pc = "fte_cost"
        /\ rng' = AdvanceN(s, d)
        /\ frame' = [frame EXCEPT ![i] =
             [f EXCEPT !.pc = "present_value",
                       !.fte_cost_samples =
                           _generate_samples(f.core_params.fte_cost,
                                             f.core_params.fte_cost_std,
                                             n_sim, StdNormal(s, n_sim)),
                       !.log = Logged(Append(f.log, [op |-> "seed", n |-> 0]),
                                      "fte_cost", d)]]
        /\ UNCHANGED << n_simulations, random_seed >>

\* fte_cost_samples = self._generate_samples(fte_cost, ...)
SampleFteCost(i) ==
    LET f == frame[i]
        n_sim == n_simulations[i]
        d == SampleDraws(f.core_params.fte_cost_std, n_sim)
    IN  /\ f.pc = "fte_cost"
        /\ rng' = AdvanceN(rng, d)
        /\ frame' = [frame EXCEPT ![i] =
             [f EXCEPT !.pc = "present_value",
                       !.fte_cost_samples =
                           _generate_samples(f.core_params.fte_cost,
                                             f.core_params.fte_cost_std,
                                             n_sim, StdNormal(rng, n_sim)),
                       !.log = Logged(f.log, "fte_cost", d)]]
        /\ UNCHANGED << n_simulations, random_seed >>

\* nominal and success-adjusted labor of each simulation
SuccessAdjustedLabor(core_params, timeline_samples, fte_cost_samples) ==
    [k \in 1..Len(timeline_samples) |->
        LET nominal_labor_cost ==
                Fl(Fl(RoundDiv(timeline_samples[k] * fte_cost_samples[k], YearUnits))
                   * core_params.fte_count)
        IN  FDiv(nominal_labor_cost, core_params.prob_success)]

\* total_cost_pv before the risk factors: labor, capex, amortization, opex
\* and misc costs, added in this order
TotalCostPV(labor_cost_pv, capex, amortization_pv, opex_pv, misc_costs) ==
    [k \in 1..Len(labor_cost_pv) |->
        FAdd(FAdd(FAdd(FAdd(labor_cost_pv[k], capex), amortization_pv[k]),
                  opex_pv[k]), misc_costs)]

\* _simulate_build_costs from the labor cost to the misc costs; the opex
\* samples are drawn inside _calculate_opex_pv
PresentValue(i) ==
    LET f == frame[i]
        n_sim == n_simulations[i]
        d == OpexDraws(f.cost_params, n_sim)
        labor == _calculate_labor_pv_year_by_year(
                     SuccessAdjustedLabor(f.core_params, f.timeline_samples,
                                          f.fte_cost_samples),
                     f.timeline_samples, f.core_params.wacc)
        amort == _calculate_amortization_pv(f.cost_params.amortization,
                                            f.timeline_samples, f.core_params.wacc)
        opex == _calculate_opex_pv(f.cost_params, f.core_params, n_sim,
                                   StdNormal(rng, n_sim))
    IN  /\ f.pc = "present_value"
        /\ rng' = AdvanceN(rng, d)
        /\ frame' = [frame EXCEPT ![i] =
             [f EXCEPT !.pc = "risk",
                       !.labor_cost_pv = labor,
                       !.amortization_pv = amort,
                       !.opex_pv = opex,
                       !.total_cost_pv =
                           TotalCostPV(labor, f.cost_params.capex, amort, opex,
                                       f.core_params.misc_costs),
                       !.log = Logged(f.log, "maint_opex", d)]]
        /\ UNCHANGED << n_simulations, random_seed >>

\* total_cost_pv = self._apply_risk_factors(...); return self._clean_samples(...)
ApplyRisk(i) ==
    LET f == frame[i]
        n_sim == n_simulations[i]
        d == RiskDraws(f.risk_params, n_sim)
        zs == StdNormal(rng, n_sim)
    IN  /\ f.pc = "risk"
        /\ rng' = AdvanceN(rng, d)
        /\ frame' = [frame EXCEPT ![i] =
             [f EXCEPT !.pc = "summary",
                       !.risk_multipliers = RiskMultipliers(f.risk_params, n_sim, zs),
                       !.build_cost_distribution =
                           _clean_samples(_apply_risk_factors(f.total_cost_pv,
                                                              f.risk_params, n_sim, zs)),
                       !.log = Logged(f.log, "risk", d)]]
        /\ UNCHANGED << n_simulations, random_seed >>

\* the fields results.update(...) adds
Echo(core_params, risk_params) ==
    [tech_risk |-> risk_params.tech_risk,
     vendor_risk |-> risk_params.vendor_risk,
     market_risk |-> risk_params.market_risk,
     prob_success |-> core_params.prob_success \div (One \div 100),
     confidence_level |-> 80,
     wacc |-> core_params.wacc \div (One \div 100),
     useful_life |-> core_params.useful_life]

\* _calculate_buy_costs, _calculate_results, results.update and the return
Summarize(i) ==
    LET f == frame[i]
    IN  /\ f.pc = "summary"
        /\ frame' = [frame EXCEPT ![i] =
             IF BuyRaises(f.buy_params)
             THEN [f EXCEPT !.pc = "raised"]
             ELSE [f EXCEPT !.pc = "done",
                            !.results =
                                _calculate_results(
                                    f.build_cost_distribution,
                                    _calculate_buy_costs(f.buy_params, f.core_params))
                                @@ Echo(f.core_params, f.risk_params)]]
        /\ UNCHANGED << n_simulations, random_seed, rng >>

\* the steps of the call in progress on instance i
Step(i) ==
    \/ SeedStep(i)
    \/ Extract(i)
    \/ SampleTimeline(i)
    \/ SampleFteCost(i)
    \/ PresentValue(i)
    \/ ApplyRisk(i)
    \/ Summarize(i)

\* ------------------------------------------------------------------------
\* Inputs of the specifications
\* ------------------------------------------------------------------------
\* uncertain timeline, FTE cost and opex, with a technical risk
Uncertain ==
    [Example1 EXCEPT
        !.build_timeline_std = Num(3 * Half), !.fte_cost_std = Num(20000),
        !.maint_opex = Num(10000), !.maint_opex_std = Num(2000),
        !.tech_risk = Num(20)]

\* Example 1 with the purchase priced at the build cost
Tie == [Example1 EXCEPT !.product_price = Num(228832)]

\* a numeric field holding a string that is not a number
Malformed == [Example1 EXCEPT !.fte_cost = BadStr]

\* every key present with value None
AllNone == [f \in NumericKeys |-> None] @@ [buy_selector |-> NoneSelector]

\* every numeric key None, buy_selector left out
NumericNone == [f \in NumericKeys |-> None] @@ [buy_selector |-> NoSelector]

Pool == {Example1, EmptyParams, Uncertain, Tie, Malformed, AllNone, NumericNone}

\* Example 1 with a credit larger than the build cost booked as misc_costs
Credit == [Example1 EXCEPT !.misc_costs = Num(0 - 300000)]

WithRisk(p, tech, vendor, market) ==
    [p EXCEPT !.tech_risk = Num(tech), !.vendor_risk = Num(vendor),
              !.market_risk = Num(market)]

RiskLevels ==
    {<<0, 0, 0>>, <<1, 0, 0>>, <<20, 0, 0>>, <<20, 10, 0>>, <<20, 10, 5>>,
     <<-10, 0, 0>>}

PoolRisk ==
    {WithRisk(p, r[1], r[2], r[3]) : p \in {Example1, Uncertain, Credit}, r \in RiskLevels}

\* a 15-month and a 30-month build with amortization, opex and a subscription
Discounted(months) ==
    [Example1 EXCEPT
        !.build_timeline = Num(months * Half), !.useful_life = Num(3 * Half),
        !.amortization = Num(2000), !.maint_opex = Num(10000),
        !.subscription_price = Num(50000), !.subscription_increase = Num(5),
        !.buy_selector = Selector({"subscription"})]

WaccLevels == {0, 2, 5, 10, 15}

PoolWacc ==
    {[p EXCEPT !.wacc = Num(w)] : p \in {Discounted(15), Discounted(30)},
                                  w \in WaccLevels}

Offer(product_price, subscription_price, increase, life, wacc) ==
    [Example1 EXCEPT
        !.product_price = Num(product_price),
        !.subscription_price = Num(subscription_price),
        !.subscription_increase = Num(increase),
        !.useful_life = Num(life * Half), !.wacc = Num(wacc)]

PoolBuy ==
    {[p EXCEPT !.buy_selector = Selector(sel)] :
        p \in {Offer(300000, 50000, 0, 5, 8), Offer(1000000, 250000, 3, 5, 8)},
        sel \in SUBSET {"one_time", "subscription"}}

\* ------------------------------------------------------------------------
\* Specifications
\* ------------------------------------------------------------------------
\* two instances of any sizes and seeds, calls made one at a time
Init ==
    \E n1, n2 \in 1..MaxSim : \E s1, s2 \in Seeds :
        Construct(<<n1, n2, 0>>, <<s1, s2, DefaultSeed>>)

Next == \E i \in Insts : (\E p \in Pool : Call(i, p)) \/ Step(i)

Spec == Init /\ [][Next]_vars

\* two instances built alike, called with parameters that differ in risk
InitPair ==
    \E n \in 1..MaxSim : \E s \in Seeds : Construct(<<n, n, 0>>, <<s, s, s>>)

NextRisk == \E i \in Insts : (\E p \in PoolRisk : Call(i, p)) \/ Step(i)

SpecRisk == InitPair /\ [][NextRisk]_vars

\* two instances built alike, called with parameters that differ in wacc
NextWacc == \E i \in Insts : (\E p \in PoolWacc : Call(i, p)) \/ Step(i)

SpecWacc == InitPair /\ [][NextWacc]_vars

\* three instances built alike, called with the four buy selections
InitTriple ==
    \E n \in 1..MaxSim : Construct(<<n, n, n>>, <<DefaultSeed, DefaultSeed, DefaultSeed>>)

NextBuy == \E i \in Insts : (\E p \in PoolBuy : Call(i, p)) \/ Step(i)

SpecBuy == InitTriple /\ [][NextBuy]_vars

\* ------------------------------------------------------------------------
\* The build-cost vector as a function of the generator state after seeding
\* ------------------------------------------------------------------------
\* _simulate_build_costs run from the generator state s0: the timeline, the
\* FTE-cost, the opex and the risk draws are taken from it in this order
_simulate_build_costs(s0, core_params, cost_params, risk_params, n_sim) ==
    LET timeline_samples ==
            _generate_samples(core_params.build_timeline,
                              core_params.build_timeline_std,
                              n_sim, StdNormal(s0, n_sim))
        s1 == AdvanceN(s0, SampleDraws(core_params.build_timeline_std, n_sim))
        fte_cost_samples ==
            _generate_samples(core_params.fte_cost, core_params.fte_cost_std,
                              n_sim, StdNormal(s1, n_sim))
        s2 == AdvanceN(s1, SampleDraws(core_params.fte_cost_std, n_sim))
        labor_cost_pv ==
            _calculate_labor_pv_year_by_year(
                SuccessAdjustedLabor(core_params, timeline_samples, fte_cost_samples),
                timeline_samples, core_params.wacc)
        amortization_pv ==
            _calculate_amortization_pv(cost_params.amortization, timeline_samples,
                                       core_params.wacc)
        opex_pv == _calculate_opex_pv(cost_params, core_params, n_sim,
                                      StdNormal(s2, n_sim))
        s3 == AdvanceN(s2, OpexDraws(cost_params, n_sim))
        total_cost_pv ==
            TotalCostPV(labor_cost_pv, cost_params.capex, amortization_pv,
                        opex_pv, core_params.misc_costs)
    IN  _clean_samples(_apply_risk_factors(total_cost_pv, risk_params, n_sim,
                                           StdNormal(s3, n_sim)))

\* ------------------------------------------------------------------------
\* Properties
\* ------------------------------------------------------------------------
\* the call on instance i has returned a result
Done(i) == frame[i].pc = "done"

\* the call on instance i has raised an exception
Raised(i) == frame[i].pc = "raised"

\* instances i and j were built with the same seed and n_simulations
SameBuild(i, j) ==
    random_seed[i] = random_seed[j] /\ n_simulations[i] = n_simulations[j]

\* the mappings p and q agree on every key outside keys
SameBut(p, q, keys) == \A k \in (DOMAIN p) \ keys : p[k] = q[k]

RiskKeys == {"tech_risk", "vendor_risk", "market_risk"}

\* every entry of the sequence s is the same value
Constant(s) == \A a, b \in 1..Len(s) : s[a] = s[b]

\* the three *_std fields are 0 in the call on instance i
ZeroStd(i) ==
    /\ frame[i].core_params.build_timeline_std = 0
    /\ frame[i].core_params.fte_cost_std = 0
    /\ frame[i].cost_params.maint_opex_std = 0

\* C1: the cost_distribution a call returns is the function
\* _simulate_build_costs of the instance's seed, its n_simulations and the
\* parameters alone (the generator state left by earlier calls plays no part),
\* and two returned calls with the same seed, n_simulations and parameters
\* hold identical results, on whichever instances they ran.
C1_Determinism ==
    /\ \A i \in Insts :
          Done(i) =>
            frame[i].results.cost_distribution =
                _simulate_build_costs(SeedState(random_seed[i]),
                                      _extract_core_parameters(frame[i].params),
                                      _extract_cost_parameters(frame[i].params),
                                      _extract_risk_parameters(frame[i].params),
                                      n_simulations[i])
    /\ \A i, j \in Insts :
          (Done(i) /\ Done(j) /\ SameBuild(i, j) /\ frame[i].params = frame[j].params)
            => frame[i].results = frame[j].results

\* two instances with the same seed have both returned from a call with the
\* uncertain parameters, which draws from the generator four times
C1_Witness ==
    \E i, j \in Insts :
        /\ i # j /\ Done(i) /\ Done(j) /\ SameBuild(i, j)
        /\ n_simulations[i] > 1
        /\ frame[i].params = Uncertain /\ frame[j].params = Uncertain
        /\ Len(frame[i].log) = 5

\* C2: in every returned result npv_difference is buy_total_cost minus
\* expected_build_cost, the recommendation is "Build" exactly when
\* npv_difference > 0 and "Buy" in every other case, a tie included.
C2_Recommendation ==
    \A i \in Insts :
        Done(i) =>
            LET r == frame[i].results
            IN  /\ r.npv_difference = FSub(r.buy_total_cost, r.expected_build_cost)
                /\ (r.recommendation = "Build") <=> (r.npv_difference > 0)
                /\ (r.recommendation = "Buy") <=> (r.npv_difference <= 0)

\* a call has returned with the buy cost equal to the expected build cost
C2_Witness ==
    \E i \in Insts :
        /\ Done(i)
        /\ frame[i].results.npv_difference = 0
        /\ frame[i].results.buy_total_cost > 0
        /\ frame[i].results.recommendation = "Buy"

\* C3: a call whose mapping holds an unparseable string in a numeric field
\* never raises, and once it has returned the field has taken its default.
C3_NeverRaises ==
    \A i \in Insts :
        (\E k \in NumericKeys : frame[i].params[k] = BadStr) =>
            /\ ~Raised(i)
            /\ (Done(i) /\ frame[i].params.fte_cost = BadStr)
                 => frame[i].core_params.fte_cost = 150000

\* C4: a call in whose mapping every key is absent or None raises no
\* exception, and the extracted groups hold the documented defaults.
C4_DefaultsNoException ==
    \A i \in Insts :
        (\A k \in DOMAIN frame[i].params :
            frame[i].params[k].k \in {"absent", "none"}) =>
            /\ ~Raised(i)
            /\ Done(i) =>
                 /\ frame[i].core_params = _extract_core_parameters(EmptyParams)
                 /\ frame[i].risk_params = _extract_risk_parameters(EmptyParams)
                 /\ frame[i].cost_params = _extract_cost_parameters(EmptyParams)
                 /\ frame[i].buy_params = _extract_buy_parameters(EmptyParams)

OneRiskRaised(i, j) ==
    \E k \in RiskKeys :
        /\ SameBut(frame[i].params, frame[j].params, {k})
        /\ frame[i].risk_params[k] < frame[j].risk_params[k]

\* C6: for a fixed seed and all other parameters held fixed, a call with one
\* of tech_risk, vendor_risk, market_risk increased returns an
\* expected_build_cost that is not smaller.
C6_RiskMonotone ==
    \A i, j \in Insts :
        (Done(i) /\ Done(j) /\ SameBuild(i, j) /\ OneRiskRaised(i, j)) =>
            frame[i].results.expected_build_cost
                <= frame[j].results.expected_build_cost

\* the call on i has no risk, the call on j has a positive total risk, the
\* two agree on everything else, run more than one simulation, and the
\* build cost without risk is positive
RiskAdded(i, j) ==
    /\ Done(i) /\ Done(j) /\ SameBuild(i, j)
    /\ n_simulations[i] > 1
    /\ SameBut(frame[i].params, frame[j].params, RiskKeys)
    /\ \A k \in RiskKeys : frame[i].risk_params[k] = 0
    /\ TotalRisk(frame[j].risk_params) > 0
    /\ \A k \in 1..n_simulations[i] : frame[i].results.cost_distribution[k] > 0

\* C7 as stated: with positive build cost and n_simulations > 1, the call
\* with a positive total risk returns an expected_build_cost strictly greater
\* than the call with the same seed and parameters and all risks 0.
C7_RiskStrictlyRaises ==
    \A i, j \in Insts :
        RiskAdded(i, j) =>
            frame[j].results.expected_build_cost
                > frame[i].results.expected_build_cost

\* C7 amended: under the same conditions the expected_build_cost with risk
\* is never smaller than without, it is strictly greater whenever at least
\* one simulation's multiplier stays above the floor of 1.0, and it is the
\* same when every multiplier is floored at 1.0.
C7_RiskRaisesAboveFloor ==
    \A i, j \in Insts :
        RiskAdded(i, j) =>
            LET with == frame[j].results.expected_build_cost
                without == frame[i].results.expected_build_cost
                floored == \A k \in 1..n_simulations[j] :
                               frame[j].risk_multipliers[k] = One
            IN  /\ with >= without
                /\ ~floored => with > without
                /\ floored => with = without

\* a pair of calls where the risk was added and one multiplier was floored
\* at 1.0 while another stayed above it
C7_Witness ==
    \E i, j \in Insts :
        /\ RiskAdded(i, j)
        /\ \E k \in 1..n_simulations[j] : frame[j].risk_multipliers[k] = One
        /\ \E k \in 1..n_simulations[j] : frame[j].risk_multipliers[k] > One
        /\ frame[j].results.expected_build_cost
               > frame[i].results.expected_build_cost

\* the discounted components of the call on j are not larger than those of
\* the call on i
ComponentsNotLarger(i, j) ==
    /\ \A k \in 1..n_simulations[i] :
          /\ frame[j].labor_cost_pv[k] <= frame[i].labor_cost_pv[k]
          /\ frame[j].amortization_pv[k] <= frame[i].amortization_pv[k]
          /\ frame[j].opex_pv[k] <= frame[i].opex_pv[k]
    /\ frame[j].results.buy_total_cost <= frame[i].results.buy_total_cost

\* C8: with the nominal cash flows held fixed, for every pair of wacc inputs
\* w1 < w2, w1 = 0 included, the labor, amortization, opex and subscription
\* present values computed with w2 are not larger than those with w1.
C8_WaccMonotone ==
    \A i, j \in Insts :
        (/\ Done(i) /\ Done(j) /\ SameBuild(i, j)
         /\ SameBut(frame[i].params, frame[j].params, {"wacc"})
         /\ frame[i].params.wacc.v < frame[j].params.wacc.v) =>
            ComponentsNotLarger(i, j)

\* C9: in every returned result with n_simulations > 1,
\* build_cost_p10 <= build_cost_p50 <= build_cost_p90.
C9_PercentileOrder ==
    \A i \in Insts :
        (Done(i) /\ n_simulations[i] > 1) =>
            /\ frame[i].results.build_cost_p10 <= frame[i].results.build_cost_p50
            /\ frame[i].results.build_cost_p50 <= frame[i].results.build_cost_p90

\* a call with three simulations has returned a distribution that was not
\* drawn in ascending order and whose percentiles are strictly ordered
C9_Witness ==
    \E i \in Insts :
        /\ Done(i) /\ n_simulations[i] > 2
        /\ frame[i].results.cost_distribution[1]
               > frame[i].results.cost_distribution[3]
        /\ frame[i].results.build_cost_p10 < frame[i].results.build_cost_p50
        /\ frame[i].results.build_cost_p50 < frame[i].results.build_cost_p90

\* the calls on i, j and k have returned and differ in buy_selector only:
\* both options on i, one_time alone on j, subscription alone on k
BuySplit(i, j, k) ==
    /\ Done(i) /\ Done(j) /\ Done(k)
    /\ SameBut(frame[i].params, frame[j].params, {"buy_selector"})
    /\ SameBut(frame[i].params, frame[k].params, {"buy_selector"})
    /\ frame[i].buy_params.buy_selector.v = {"one_time", "subscription"}
    /\ frame[j].buy_params.buy_selector.v = {"one_time"}
    /\ frame[k].buy_params.buy_selector.v = {"subscription"}

\* the spacing of the floating-point values around x
Ulp(x) == UlpFrom(Abs(x), 1)

\* C10 as stated: buy_total_cost with both options selected equals the
\* buy_total_cost with one_time alone plus the one with subscription alone.
C10_AdditiveExact ==
    \A i, j, k \in Insts :
        BuySplit(i, j, k) =>
            frame[i].results.buy_total_cost
                = FAdd(frame[j].results.buy_total_cost,
                       frame[k].results.buy_total_cost)

\* C10 amended: the two agree up to floating-point rounding, one unit in the
\* last place for each subscription year at most, because the subscription
\* terms are added onto product_price one by one in one case and summed from
\* 0 in the other.
C10_AdditiveRounded ==
    \A i, j, k \in Insts :
        BuySplit(i, j, k) =>
            LET both == frame[i].results.buy_total_cost
                parts == FAdd(frame[j].results.buy_total_cost,
                              frame[k].results.buy_total_cost)
            IN  Abs(both - parts)
                    <= (RoundHalf(frame[i].core_params.useful_life) + 1) * Ulp(both)

\* three calls that split a purchase with a one-time price and a
\* subscription have returned
C10_Witness ==
    \E i, j, k \in Insts :
        /\ BuySplit(i, j, k)
        /\ frame[j].results.buy_total_cost > 0
        /\ frame[k].results.buy_total_cost > 0
        /\ frame[i].results.buy_total_cost > frame[j].results.buy_total_cost

\* C11: a simulate() call seeds and draws from a generator of its own
\* instance only, so no step of any call changes the state of the
\* process-wide generator np.random.
C11_GlobalGeneratorUntouched == [][rng' = rng]_vars

\* ------------------------------------------------------------------------
\* Calls that overlap in time
\* ------------------------------------------------------------------------
\* the thread of instance i makes its one call simulate(params), while the
\* call of the other instance's thread may be in progress
CallConcurrent(i, params) ==
    /\ n_simulations[i] > 0
    /\ frame[i].pc = "idle"
    /\ frame' = [frame EXCEPT ![i] = NewFrame(params)]
    /\ UNCHANGED << n_simulations, random_seed, rng >>

PoolThreads == {Example1, Uncertain}

NextThreads ==
    \E i \in Insts : (\E p \in PoolThreads : CallConcurrent(i, p)) \/ Step(i)

\* two instances of the same size, each with its own seed
InitThreads ==
    \E n \in 1..MaxSim : Construct(<<n, n, 0>>, <<DefaultSeed, 7, DefaultSeed>>)

\* the calls on the two instances interleave step by step
SpecThreads == InitThreads /\ [][NextThreads]_vars

\* the cost_distribution the call on instance i returns when no other call
\* runs between its seeding and its return
Alone(i) ==
    _simulate_build_costs(SeedState(random_seed[i]),
                          _extract_core_parameters(frame[i].params),
                          _extract_cost_parameters(frame[i].params),
                          _extract_risk_parameters(frame[i].params),
                          n_simulations[i])

\* C12: however the steps of calls on two distinct instances interleave,
\* each call returns the cost_distribution it returns when run alone.
C12_NoContention ==
    \A i \in Insts :
        Done(i) => frame[i].results.cost_distribution = Alone(i)

ResultKeys ==
    {"expected_build_cost", "build_cost_p10", "build_cost_p50",
     "build_cost_p90", "buy_total_cost", "npv_difference", "recommendation",
     "cost_distribution"}

\* C13: every returned result has the keys expected_build_cost,
\* build_cost_p10, build_cost_p50, build_cost_p90, buy_total_cost,
\* npv_difference, recommendation and cost_distribution; recommendation is
\* "Build" or "Buy"; cost_distribution is a sequence of exactly n_simulations
\* entries, in the order of the simulations.
C13_ResultShape ==
    \A i \in Insts :
        Done(i) =>
            LET r == frame[i].results
            IN  /\ ResultKeys \subseteq DOMAIN r
                /\ r.recommendation \in {"Build", "Buy"}
                /\ DOMAIN r.cost_distribution = 1..n_simulations[i]
                /\ r.cost_distribution = frame[i].build_cost_distribution

\* a call with several simulations and uncertain inputs has returned "Build"
C13_Witness ==
    \E i \in Insts :
        /\ Done(i) /\ n_simulations[i] > 1
        /\ frame[i].params = Uncertain
        /\ Len(frame[i].results.cost_distribution) = n_simulations[i]
        /\ frame[i].results.recommendation = "Build"

\* ------------------------------------------------------------------------
\* The worked examples of the validation scripts
\* ------------------------------------------------------------------------
\* Example 2: Example 1 bought as a subscription of 50000 escalating by 5%
Example2 ==
    [Example1 EXCEPT
        !.buy_selector = Selector({"subscription"}),
        !.subscription_price = Num(50000), !.subscription_increase = Num(5)]

\* the case of the WACC validation: a 24-month build by one FTE, three years
\* of useful life, a flat subscription, opex, capex, amortization and misc
WaccCase ==
    [EmptyParams EXCEPT
        !.build_timeline = Num(24 * Half), !.fte_cost = Num(120000),
        !.fte_count = Num(1), !.useful_life = Num(3 * Half),
        !.prob_success = Num(100), !.wacc = Num(10),
        !.buy_selector = Selector({"subscription"}),
        !.subscription_price = Num(50000), !.subscription_increase = Num(0),
        !.maint_opex = Num(10000), !.capex = Num(30000),
        !.amortization = Num(2000), !.misc_costs = Num(5000)]

PoolExamples == {Example1, Example2, WaccCase}

NextExamples == \E i \in Insts : (\E p \in PoolExamples : Call(i, p)) \/ Step(i)

SpecExamples == InitPair /\ [][NextExamples]_vars

\* C14 as stated: Example 2 returns a buy_total_cost within $1,000 of
\* 196,418.
C14_Example2AsStated ==
    \A i \in Insts :
        (Done(i) /\ frame[i].params = Example2) =>
            Abs(frame[i].results.buy_total_cost - 196418) <= 1000

\* C14 amended: Example 2 returns a buy_total_cost within $1,000 of 207,529,
\* the value of the sum over y = 1..5 of 50000 * 1.05^(y-1) / 1.1^y.
C14_Example2Value ==
    \A i \in Insts :
        (Done(i) /\ frame[i].params = Example2) =>
            Abs(frame[i].results.buy_total_cost - 207529) <= 1000

\* a call with the parameters of Example 2 has returned
C14_Witness ==
    \E i \in Insts :
        /\ Done(i) /\ frame[i].params = Example2
        /\ frame[i].buy_params.buy_selector.v = {"subscription"}
        /\ frame[i].results.buy_total_cost > 0

RECURSIVE SubscriptionSum(_, _, _, _, _)
\* the sum over k = 0 .. count-1 of price * (1+increase)^k / (1+wacc)^(first+k)
SubscriptionSum(price, increase, wacc, first, count) ==
    IF count <= 0 THEN 0
    ELSE SubscriptionSum(price, increase, wacc, first, count - 1)
         + DivFix(MulFix(price, PowI(One + increase, count - 1)),
                  PowI(One + wacc, first + count - 1))

\* the call on instance i has returned the cost of a subscription alone
SubscriptionOnly(i) ==
    Done(i) /\ frame[i].buy_params.buy_selector.v = {"subscription"}

EndOfTimelineLabor(nominal, timeline, wacc) ==
    DivFix(nominal, Pow48(One + wacc, 2 * timeline))

RECURSIVE MidYearSum(_, _, _)
\* the sum over year = 0 .. years-1 of per_year / (1+wacc)^(year + 0.5)
MidYearSum(per_year, years, wacc) ==
    IF years <= 0 THEN 0
    ELSE MidYearSum(per_year, years - 1, wacc)
         + DivFix(per_year, Pow48(One + wacc, 48 * (years - 1) + 24))

\* the cost spread evenly over the timeline, each year's share paid at the
\* middle of that year (of the part of it the build covers, in a last partial
\* year); a build of a year or less is paid whole at six months
MidYearLabor(nominal, timeline, wacc) ==
    IF timeline <= YearUnits
    THEN DivFix(nominal, Pow48(One + wacc, 24))
    ELSE LET years == timeline \div YearUnits
             rest == timeline % YearUnits
             per_year == (nominal * YearUnits) \div timeline
         IN  MidYearSum(per_year, years, wacc)
             + (IF rest = 0 THEN 0
                ELSE DivFix((per_year * rest) \div YearUnits,
                            Pow48(One + wacc, 48 * years + rest)))

\* the call on instance i has returned, with no uncertainty and no risk
DoneCertain(i) ==
    Done(i) /\ ZeroStd(i) /\ TotalRisk(frame[i].risk_params) = 0

\* the success-adjusted nominal labor of simulation k of the call on i
AdjustedLabor(i, k) ==
    SuccessAdjustedLabor(frame[i].core_params, frame[i].timeline_samples,
                         frame[i].fte_cost_samples)[k]

RiskApplied(i) == frame[i].pc \in {"summary", "done"}

\* the risk step of the call on instance i drew from the generator
RiskDrew(i) == \E e \in 1..Len(frame[i].log) : frame[i].log[e].op = "risk"

JitterStep(i) ==
    /\ frame[i].pc = "risk" /\ frame'[i].pc = "summary"
    /\ n_simulations[i] > 1
    /\ TotalRisk(frame[i].risk_params) > 0

\* the draws e of np.random.normal(0, 0.05, n_sim) made from generator state s
RiskVariations(s, n_sim) ==
    LET zs == StdNormal(s, n_sim)
    IN  [k \in 1..n_sim |-> zs[k] * (One \div 20)]

\* C18 as stated: for n_simulations > 1 and total_risk_percent > 0 the
\* multiplier applied to simulation k is max(1.0, (1 + total_risk_percent/100)
\* + e_k), e_k the k-th draw of a Gaussian of mean 0 and standard deviation
\* 0.05: the jitter is added to the multiplier.
C18_JitterAdded ==
    [][\A i \in Insts :
         JitterStep(i) =>
            LET e == RiskVariations(rng, n_simulations[i])
                m == One + Pct(TotalRisk(frame[i].risk_params))
            IN  /\ frame'[i].risk_multipliers
                       = [k \in 1..n_simulations[i] |-> Max2(m + e[k], One)]
                /\ frame'[i].build_cost_distribution
                       = [k \in 1..n_simulations[i] |->
                             FMul(frame[i].total_cost_pv[k], Max2(m + e[k], One))]]_vars

\* C18 amended: for n_simulations > 1 and total_risk_percent > 0 the
\* multiplier applied to simulation k is
\* max(1.0, (1 + total_risk_percent/100) * (1 + e_k)), e_k the k-th draw of a
\* Gaussian of mean 0 and standard deviation 0.05: the jitter scales the
\* multiplier, with a spread proportional to it.
C18_JitterScaled ==
    [][\A i \in Insts :
         JitterStep(i) =>
            LET e == RiskVariations(rng, n_simulations[i])
                m == One + Pct(TotalRisk(frame[i].risk_params))
            IN  /\ frame'[i].risk_multipliers
                       = [k \in 1..n_simulations[i] |->
                             Max2(FxMul(m, One + e[k]), One)]
                /\ frame'[i].build_cost_distribution
                       = [k \in 1..n_simulations[i] |->
                             FMul(frame[i].total_cost_pv[k],
                                  Max2(FxMul(m, One + e[k]), One))]]_vars

\* a jittered risk step has left one multiplier above and one below the
\* multiplier 1 + total_risk_percent/100, both above the floor
C18_Witness ==
    \E i \in Insts :
        LET m == One + Pct(TotalRisk(frame[i].risk_params))
        IN  /\ RiskApplied(i) /\ n_simulations[i] > 1
            /\ TotalRisk(frame[i].risk_params) > 0
            /\ \E k \in 1..n_simulations[i] : frame[i].risk_multipliers[k] > m
            /\ \E k \in 1..n_simulations[i] :
                  /\ frame[i].risk_multipliers[k] < m
                  /\ frame[i].risk_multipliers[k] > One

\* C19: risk never reduces cost: at every simulation index the risk-adjusted
\* cost that _apply_risk_factors returns is greater than or equal to the
\* pre-risk cost at that index, for every input.
C19_RiskNeverReduces ==
    \A i \in Insts :
        RiskApplied(i) =>
            \A k \in 1..Len(frame[i].total_cost_pv) :
                frame[i].build_cost_distribution[k] >= frame[i].total_cost_pv[k]

\* C20: when tech_risk + vendor_risk + market_risk is 0 or less, a negative
\* sum included, _apply_risk_factors returns the cost vector unchanged
\* element for element and makes no generator draw.
C20_NoRiskNoChange ==
    \A i \in Insts :
        LET r == frame[i].risk_params
        IN  (RiskApplied(i) /\ r.tech_risk + r.vendor_risk + r.market_risk <= 0) =>
                /\ frame[i].build_cost_distribution = frame[i].total_cost_pv
                /\ ~RiskDrew(i)

\* a call of several uncertain simulations whose risks sum to less than 0
\* has returned
C20_Witness ==
    \E i \in Insts :
        LET r == frame[i].risk_params
        IN  /\ Done(i) /\ n_simulations[i] > 1
            /\ r.tech_risk + r.vendor_risk + r.market_risk < 0
            /\ ~Constant(frame[i].total_cost_pv)
            /\ frame[i].results.cost_distribution = frame[i].total_cost_pv

\* the place of a use of the generator in the order seed, timeline samples,
\* FTE-cost samples, maintenance-opex samples, risk jitter
OpRank(op) ==
    CASE op = "seed" -> 0
      [] op = "timeline" -> 1
      [] op = "fte_cost" -> 2
      [] op = "maint_opex" -> 3
      [] op = "risk" -> 4

\* the uses of the generator a call has made so far begin with the seeding
\* and follow the order of OpRank, none of them made twice
InDrawOrder(log) ==
    /\ log # << >> => log[1].op = "seed"
    /\ \A a, b \in 1..Len(log) : a < b => OpRank(log[a].op) < OpRank(log[b].op)

\* the generator state from which each component of the call on instance i
\* draws when the call seeds once and draws in the order of OpRank
StateAt(i, rank) ==
    LET f == frame[i]
        n_sim == n_simulations[i]
        s1 == SeedState(random_seed[i])
        s2 == AdvanceN(s1, SampleDraws(f.core_params.build_timeline_std, n_sim))
        s3 == AdvanceN(s2, SampleDraws(f.core_params.fte_cost_std, n_sim))
        s4 == AdvanceN(s3, OpexDraws(f.cost_params, n_sim))
    IN  CASE rank = 1 -> s1 [] rank = 2 -> s2 [] rank = 3 -> s3 [] rank = 4 -> s4

\* C21: within one simulate() call the generator is seeded exactly once,
\* before any draw, and the draws that occur are made in the order timeline
\* samples, FTE-cost samples, maintenance-opex samples, risk jitter: each
\* component holds the values that follow the previous component's in the
\* seeded sequence, the risk jitter those after all present-value draws.
C21_DrawOrder ==
    \A i \in Insts :
        LET f == frame[i]
            n_sim == n_simulations[i]
        IN  /\ InDrawOrder(f.log)
            /\ RiskApplied(i) =>
                  /\ f.timeline_samples
                         = _generate_samples(f.core_params.build_timeline,
                                             f.core_params.build_timeline_std,
                                             n_sim, StdNormal(StateAt(i, 1), n_sim))
                  /\ f.fte_cost_samples
                         = _generate_samples(f.core_params.fte_cost,
                                             f.core_params.fte_cost_std,
                                             n_sim, StdNormal(StateAt(i, 2), n_sim))
                  /\ f.opex_pv
                         = _calculate_opex_pv(f.cost_params, f.core_params, n_sim,
                                              StdNormal(StateAt(i, 3), n_sim))
                  /\ f.risk_multipliers
                         = RiskMultipliers(f.risk_params, n_sim,
                                           StdNormal(StateAt(i, 4), n_sim))

\* a call that made all four kinds of draws has returned
C21_Witness ==
    \E i \in Insts :
        /\ Done(i)
        /\ Len(frame[i].log) = 5
        /\ frame[i].log[2].op = "timeline" /\ frame[i].log[5].op = "risk"
        /\ ~Constant(frame[i].fte_cost_samples)

\* ------------------------------------------------------------------------
\* Samples that reach zero and below
\* ------------------------------------------------------------------------
\* Example 1 with standard deviations as large as the means, and opex
Wide ==
    [Example1 EXCEPT
        !.build_timeline_std = Num(12 * Half), !.fte_cost_std = Num(120000),
        !.maint_opex = Num(10000), !.maint_opex_std = Num(10000)]

\* Wide with a negative FTE cost
Refund == [Wide EXCEPT !.fte_cost = Num(0 - 120000)]

PoolSamples == {Example1, Wide, Refund}

NextSamples == \E i \in Insts : (\E p \in PoolSamples : Call(i, p)) \/ Step(i)

SpecSamples == InitPair /\ [][NextSamples]_vars

\* samples is what _generate_samples(mean, std, n_sim) may return when the
\* generator is in state s: n_sim entries, each one its own draw when that
\* draw is strictly positive and mean when it is not; all mean when std is 0
SamplesOf(samples, mean, std, n_sim, s) ==
    /\ Len(samples) = n_sim
    /\ std > 0 =>
          \A k \in 1..n_sim :
              LET draw == FAdd(mean, Fl(std * Gauss(AdvanceN(s, k))))
              IN  \/ draw > 0 /\ samples[k] = draw
                  \/ draw <= 0 /\ samples[k] = mean
    /\ std = 0 => \A k \in 1..n_sim : samples[k] = mean
    /\ mean > 0 => \A k \in 1..n_sim : samples[k] > 0

\* C22: _generate_samples(mean, std, n) returns a vector of length n in
\* which, if std > 0, every entry is either a strictly positive draw or
\* exactly mean (each draw <= 0 is replaced by mean) and, if std = 0, every
\* entry equals mean; when mean > 0 every sample is strictly positive.
C22_SamplesPositiveOrMean ==
    [][\A i \in Insts :
         /\ (frame[i].pc = "timeline" /\ frame'[i].pc = "fte_cost") =>
               SamplesOf(frame'[i].timeline_samples,
                         frame[i].core_params.build_timeline,
                         frame[i].core_params.build_timeline_std,
                         n_simulations[i], rng)
         /\ (frame[i].pc = "fte_cost" /\ frame'[i].pc = "present_value") =>
               SamplesOf(frame'[i].fte_cost_samples,
                         frame[i].core_params.fte_cost,
                         frame[i].core_params.fte_cost_std,
                         n_simulations[i], rng)]_vars

\* a call has sampled a timeline of which one draw was kept and another,
\* not positive, was replaced by the mean
C22_Witness ==
    \E i \in Insts :
        LET f == frame[i]
            zs == StdNormal(SeedState(random_seed[i]), n_simulations[i])
        IN  /\ f.pc = "fte_cost" /\ f.core_params.build_timeline_std > 0
            /\ \E k \in 1..n_simulations[i] :
                  /\ f.core_params.build_timeline
                         + f.core_params.build_timeline_std * zs[k] <= 0
                  /\ f.timeline_samples[k] = f.core_params.build_timeline
            /\ \E k \in 1..n_simulations[i] :
                  f.timeline_samples[k] > f.core_params.build_timeline

\* ------------------------------------------------------------------------
\* Probabilities of success and standard deviations out of range
\* ------------------------------------------------------------------------
\* Example 1 with opex, a prob_success of p percent and the three *_std
\* fields at std times 1 month, 10000 and 1000
OutOfRange(p, std) ==
    [Example1 EXCEPT
        !.prob_success = Num(p), !.maint_opex = Num(10000),
        !.build_timeline_std = Num(std * Half),
        !.fte_cost_std = Num(std * 10000), !.maint_opex_std = Num(std * 1000)]

PoolClip ==
    {OutOfRange(p, 0 - 2) : p \in {0 - 50, 0, 1, 50, 100, 150}}
        \cup {OutOfRange(50, 2), OutOfRange(150, 2)}

NextClip == \E i \in Insts : (\E p \in PoolClip : Call(i, p)) \/ Step(i)

SpecClip == InitPair /\ [][NextClip]_vars

\* the labor cost of the call on instance i has been computed
LaborComputed(i) == frame[i].pc \in {"risk", "summary", "done"}

\* the nominal labor of simulation k of the call on i, before the division
\* by prob_success
NominalLabor(i, k) ==
    SuccessAdjustedLabor([frame[i].core_params EXCEPT !.prob_success = One],
                         frame[i].timeline_samples, frame[i].fte_cost_samples)[k]

\* C23: for every numeric input the extracted prob_success lies in
\* [0.01, 1.0] and the extracted build_timeline_std, fte_cost_std and
\* maint_opex_std are >= 0, so the success adjustment never divides by zero
\* and the success-adjusted labor is never smaller than a non-negative
\* nominal labor.
C23_ClippedParameters ==
    \A i \in Insts :
        /\ frame[i].core_params.prob_success >= One \div 100
        /\ frame[i].core_params.prob_success <= One
        /\ frame[i].core_params.build_timeline_std >= 0
        /\ frame[i].core_params.fte_cost_std >= 0
        /\ frame[i].cost_params.maint_opex_std >= 0
        /\ LaborComputed(i) =>
              \A k \in 1..n_simulations[i] :
                  NominalLabor(i, k) >= 0 => AdjustedLabor(i, k) >= NominalLabor(i, k)

\* a call given a negative prob_success and negative *_std has returned,
\* its labor divided by 0.01
C23_Witness ==
    \E i \in Insts :
        /\ Done(i)
        /\ frame[i].params.prob_success.v < 0
        /\ frame[i].core_params.prob_success = One \div 100
        /\ frame[i].params.fte_cost_std.v < 0
        /\ frame[i].core_params.fte_cost_std = 0
        /\ NominalLabor(i, 1) > 0
        /\ AdjustedLabor(i, 1) > NominalLabor(i, 1)

\* ------------------------------------------------------------------------
\* Horizons that round up, down and to zero
\* ------------------------------------------------------------------------
\* a build of timeline half months with amortization and opex, a useful life
\* of life half years, a one-time price and an escalating subscription
Horizon(timeline, life) ==
    [Example1 EXCEPT
        !.build_timeline = Num(timeline), !.useful_life = Num(life),
        !.amortization = Num(2000), !.maint_opex = Num(10000),
        !.subscription_price = Num(50000), !.subscription_increase = Num(5)]

PoolHorizons ==
    {[Horizon(timeline, life) EXCEPT !.buy_selector = Selector(sel)] :
        timeline \in {1, 12 * Half}, life \in {1, 5, 7, 5 * Half},
        sel \in SUBSET {"one_time", "subscription"}}

InitOne ==
    \E n \in 1..MaxSim : Construct(<<n, 0, 0>>, <<DefaultSeed, DefaultSeed, DefaultSeed>>)

NextHorizons == \E i \in Insts : (\E p \in PoolHorizons : Call(i, p)) \/ Step(i)

SpecHorizons == InitOne /\ [][NextHorizons]_vars

\* product_price if one_time is selected, plus, if subscription is selected,
\* the sum over year = 1 .. round(useful_life) of
\* subscription_price * (1+increase)^(year-1) / (1+wacc)^year
BuyReference(buy_params, core_params) ==
    (IF "one_time" \in buy_params.buy_selector.v
     THEN buy_params.product_price ELSE 0)
    + (IF "subscription" \in buy_params.buy_selector.v
       THEN SubscriptionSum(buy_params.subscription_price,
                            Pct(buy_params.subscription_increase),
                            core_params.wacc, 1, RoundHalf(core_params.useful_life))
       ELSE 0)

LongBuild ==
    [Example1 EXCEPT
        !.build_timeline = Num(18 * Half), !.build_timeline_std = Num(6 * Half)]

\* a two-year and a three-year build: whole years, no partial year
WholeYears(years) == [Example1 EXCEPT !.build_timeline = Num(years * YearUnits)]

PoolLabor == {Example1, LongBuild, WholeYears(2), WholeYears(3)}

InitSeeds ==
    \E n \in 1..MaxSim : \E s \in Seeds : Construct(<<n, 0, 0>>, <<s, s, s>>)

NextLabor == \E i \in Insts : (\E p \in PoolLabor : Call(i, p)) \/ Step(i)

SpecLabor == InitSeeds /\ [][NextLabor]_vars

NoLife(i) == RoundHalf(frame[i].core_params.useful_life) = 0

\* the build timeline or the useful life given in params rounds to 0
EmptyHorizon(params) ==
    LET core_params == _extract_core_parameters(params)
    IN  \/ RoundHalf(core_params.build_timeline) = 0
        \/ RoundHalf(core_params.useful_life) = 0

\* C26: when a sampled timeline rounds to 0 months the amortization PV of
\* that simulation is 0, and when useful_life rounds to 0 years the
\* maintenance-opex PV and the subscription PV are 0; in each case simulate()
\* raises no exception and returns a result.
C26_EmptyHorizons ==
    \A i \in Insts :
        LET f == frame[i]
        IN  /\ LaborComputed(i) =>
                  \A k \in 1..n_simulations[i] :
                      /\ RoundHalf(f.timeline_samples[k]) = 0 => f.amortization_pv[k] = 0
                      /\ NoLife(i) => f.opex_pv[k] = 0
            /\ (Done(i) /\ NoLife(i)) =>
                  f.results.buy_total_cost
                      = (IF "one_time" \in f.buy_params.buy_selector.v
                         THEN f.buy_params.product_price ELSE 0)
            /\ EmptyHorizon(f.params) => ~Raised(i)

\* a call with amortization, opex and a subscription, whose timeline and
\* useful life both round to 0, has returned a result
C26_Witness ==
    \E i \in Insts :
        /\ Done(i) /\ NoLife(i)
        /\ RoundHalf(frame[i].timeline_samples[1]) = 0
        /\ frame[i].cost_params.amortization > 0
        /\ frame[i].cost_params.maint_opex > 0
        /\ frame[i].buy_params.buy_selector.v = {"subscription"}
        /\ frame[i].buy_params.subscription_price > 0
        /\ frame[i].results.buy_total_cost = 0
        /\ frame[i].results.cost_distribution[1] = frame[i].labor_cost_pv[1]

\* ------------------------------------------------------------------------
\* Cost vectors with entries that are not finite
\* ------------------------------------------------------------------------
\* the values of an entry of the cost vector before the clean-up: two finite
\* costs and the stand-in of NaN and the infinities
RawCosts == {NonFinite, 100000, 250000}

\* the frame of a call that has reached the risk step with the labor cost
\* vector costs, an entry of which is not finite where a sample overflowed
AtRisk(params, costs) ==
    LET core_params == _extract_core_parameters(params)
    IN  [NewFrame(params) EXCEPT
            !.pc = "risk",
            !.core_params = core_params,
            !.risk_params = _extract_risk_parameters(params),
            !.cost_params = _extract_cost_parameters(params),
            !.buy_params = _extract_buy_parameters(params),
            !.timeline_samples = [k \in 1..Len(costs) |-> core_params.build_timeline],
            !.fte_cost_samples = [k \in 1..Len(costs) |-> core_params.fte_cost],
            !.labor_cost_pv = costs,
            !.amortization_pv = [k \in 1..Len(costs) |-> 0],
            !.opex_pv = [k \in 1..Len(costs) |-> 0],
            !.total_cost_pv = costs,
            !.log = << [op |-> "seed", n |-> 0] >>]

\* instance 1 is in a call that has reached the risk step, the generator
\* seeded by it
InitClean ==
    \E n \in 1..MaxSim : \E costs \in [1..n -> RawCosts] :
        /\ n_simulations = <<n, 0, 0>>
        /\ random_seed = <<DefaultSeed, DefaultSeed, DefaultSeed>>
        /\ rng = SeedState(DefaultSeed)
        /\ frame = [i \in Insts |->
                       IF i = 1 THEN AtRisk(Example1, costs) ELSE IdleFrame]

NextClean == \E i \in Insts : (\E p \in {Example1, Uncertain} : Call(i, p)) \/ Step(i)

SpecClean == InitClean /\ [][NextClean]_vars

\* the vector _apply_risk_factors returns in the call on instance i
RiskAdjusted(i) ==
    IF TotalRisk(frame[i].risk_params) <= 0 THEN frame[i].total_cost_pv
    ELSE [k \in 1..Len(frame[i].total_cost_pv) |->
             FMul(frame[i].total_cost_pv[k], frame[i].risk_multipliers[k])]

DefaultedKeys ==
    {"build_timeline", "fte_cost", "fte_count", "useful_life", "prob_success",
     "wacc"}

\* the ways a caller writes zero: the number 0 or 0.0, the empty string, and
\* the string "0"
Zeros == {Num(0), EmptyStr, NumStr(0)}

\* Example 1 with opex and a subscription, and zero written as z in the
\* fields keys
Zeroed(keys, z) ==
    [f \in DOMAIN Example1 |->
        IF f \in keys THEN z
        ELSE IF f = "maint_opex" THEN Num(10000)
        ELSE IF f = "subscription_price" THEN Num(50000)
        ELSE IF f = "buy_selector" THEN Selector({"one_time", "subscription"})
        ELSE Example1[f]]

PoolZero ==
    {Zeroed(keys, z) : keys \in {{}, DefaultedKeys} \cup {{f} : f \in DefaultedKeys},
                       z \in Zeros}

NextZero == \E i \in Insts : (\E p \in PoolZero : Call(i, p)) \/ Step(i)

SpecZero == InitOne /\ [][NextZero]_vars

\* the parameters of the call on instance i have been extracted
Extracted(i) ==
    frame[i].pc \in {"timeline", "fte_cost", "present_value", "risk", "summary",
                     "done"}

\* what _extract_core_parameters returns for an empty mapping
CoreDefaults == _extract_core_parameters(EmptyParams)

\* C28 as stated: a caller-supplied 0, 0.0 or empty string in build_timeline,
\* fte_cost, fte_count, useful_life, prob_success or wacc is replaced by the
\* field's default (12, 150000, 1, 5, 80%, 8%), so that the extracted value
\* of each of the six fields is never 0.
C28_NeverZero ==
    \A i \in Insts :
        Extracted(i) =>
            \A f \in DefaultedKeys :
                /\ frame[i].params[f] \in {Num(0), EmptyStr} =>
                      frame[i].core_params[f] = CoreDefaults[f]
                /\ frame[i].core_params[f] # 0

\* C28 amended: a caller-supplied 0, 0.0 or empty string in one of the six
\* fields is replaced by the field's default, wacc = 0 being simulated as 8%
\* and prob_success = 0 as 0.80; the extracted value of a field is 0 only
\* when the caller supplied a non-empty string that reads as zero ("0"),
\* which is kept, and then not for prob_success, which is clipped to 0.01.
C28_ZeroIsMissing ==
    \A i \in Insts :
        Extracted(i) =>
            /\ \A f \in DefaultedKeys :
                  /\ frame[i].params[f] \in {Num(0), EmptyStr} =>
                        frame[i].core_params[f] = CoreDefaults[f]
                  /\ frame[i].core_params[f] = 0 =>
                        frame[i].params[f] = NumStr(0) /\ f # "prob_success"
            /\ frame[i].params.wacc = Num(0) =>
                  frame[i].core_params.wacc = 8 * (One \div 100)
            /\ frame[i].params.prob_success = Num(0) =>
                  frame[i].core_params.prob_success = 80 * (One \div 100)
            /\ frame[i].params.prob_success = NumStr(0) =>
                  frame[i].core_params.prob_success = One \div 100

\* a call given the number 0 in all six fields has returned, simulated with
\* the six defaults
C28_Witness ==
    \E i \in Insts :
        /\ Done(i)
        /\ \A f \in DefaultedKeys : frame[i].params[f] = Num(0)
        /\ frame[i].core_params.wacc = 8 * (One \div 100)
        /\ frame[i].core_params.prob_success = 80 * (One \div 100)
        /\ frame[i].core_params.build_timeline = 12 * Half
        /\ frame[i].results.expected_build_cost > 0

\* ------------------------------------------------------------------------
\* Every combination of the components that draw
\* ------------------------------------------------------------------------
\* Example 1 with the uncertainties and the risk named in on switched on;
\* maintenance opex is 0 when "no_opex" is named
Drawing(on) ==
    [Example1 EXCEPT
        !.build_timeline_std = Num(IF "timeline" \in on THEN 3 * Half ELSE 0),
        !.fte_cost_std = Num(IF "fte_cost" \in on THEN 20000 ELSE 0),
        !.maint_opex = Num(IF "no_opex" \in on THEN 0 ELSE 10000),
        !.maint_opex_std = Num(IF "maint_opex" \in on THEN 2000 ELSE 0),
        !.tech_risk = Num(IF "risk" \in on THEN 20 ELSE 0)]

PoolDraws ==
    {Drawing(on) : on \in SUBSET {"timeline", "fte_cost", "maint_opex", "risk"}}
        \cup {Drawing({"maint_opex", "no_opex"}),
              Drawing({"timeline", "maint_opex", "no_opex", "risk"})}

NextDraws == \E i \in Insts : (\E p \in PoolDraws : Call(i, p)) \/ Step(i)

SpecDraws == InitSeeds /\ [][NextDraws]_vars

\* 1 if the condition holds, 0 if not
Count(condition) == IF condition THEN 1 ELSE 0

\* the number of components of the call on instance i that draw before the
\* risk step: timeline, FTE cost and maintenance opex
DrawingBeforeRisk(i) ==
    Count(frame[i].core_params.build_timeline_std > 0)
        + Count(frame[i].core_params.fte_cost_std > 0)
        + Count(frame[i].cost_params.maint_opex > 0
                /\ frame[i].cost_params.maint_opex_std > 0)

\* the risk step of the call on instance i draws
RiskStepDraws(i) ==
    Count(TotalRisk(frame[i].risk_params) > 0 /\ n_simulations[i] > 1)

\* C29: a simulate() call advances the generator from its seeded state by
\* exactly n_simulations draws for each condition that holds among
\* build_timeline_std > 0; fte_cost_std > 0; maint_opex > 0 and
\* maint_opex_std > 0; total risk > 0 and n_simulations > 1, and by none for
\* each that does not; so the risk jitter is read from the position that the
\* draws of the earlier components leave, and switching one of them between
\* 0 and a positive std moves it.
C29_DrawsConsumed ==
    [][\A i \in Insts :
         /\ (frame[i].pc = "summary" /\ frame'[i].pc = "done") =>
               /\ rng' = AdvanceN(SeedState(random_seed[i]),
                                  n_simulations[i]
                                      * (DrawingBeforeRisk(i) + RiskStepDraws(i)))
               /\ Len(frame'[i].log) = 1 + DrawingBeforeRisk(i) + RiskStepDraws(i)
               /\ \A e \in 2..Len(frame'[i].log) :
                     frame'[i].log[e].n = n_simulations[i]
         /\ (frame[i].pc = "risk" /\ frame'[i].pc = "summary") =>
               /\ rng = AdvanceN(SeedState(random_seed[i]),
                                 n_simulations[i] * DrawingBeforeRisk(i))
               /\ frame'[i].risk_multipliers
                      = RiskMultipliers(
                            frame[i].risk_params, n_simulations[i],
                            StdNormal(AdvanceN(SeedState(random_seed[i]),
                                               n_simulations[i] * DrawingBeforeRisk(i)),
                                      n_simulations[i]))]_vars

\* a call in which the timeline and the risk drew, and the FTE cost and the
\* opex did not, has returned with the generator advanced by two rounds
C29_Witness ==
    \E i \in Insts :
        /\ Done(i) /\ n_simulations[i] = 3
        /\ frame[i].core_params.build_timeline_std > 0
        /\ frame[i].core_params.fte_cost_std = 0
        /\ frame[i].cost_params.maint_opex_std > 0
        /\ frame[i].cost_params.maint_opex = 0
        /\ TotalRisk(frame[i].risk_params) > 0
        /\ Len(frame[i].log) = 3
        /\ rng = AdvanceN(SeedState(random_seed[i]), 6)

\* ------------------------------------------------------------------------
\* Builds of more than a year, discounted and not
\* ------------------------------------------------------------------------
\* a build of the given number of months by three FTE at 85000, with the
\* wacc and the prob_success given
Sliced(months, wacc, prob_success) ==
    [Example1 EXCEPT
        !.build_timeline = Num(months * Half), !.fte_cost = Num(85000),
        !.fte_count = Num(3), !.wacc = wacc, !.prob_success = Num(prob_success)]

\* the wacc is given as the string "0", which is kept as 0, and as 10
PoolSlices ==
    {Sliced(months, wacc, prob_success) :
        months \in {13, 15, 16, 18, 24, 30}, wacc \in {NumStr(0), Num(10)},
        prob_success \in {90, 100}}

NextSlices == \E i \in Insts : (\E p \in PoolSlices : Call(i, p)) \/ Step(i)

SpecSlices == InitOne /\ [][NextSlices]_vars

\* C30 as stated: for every timeline of more than 12 months the nominal
\* slices of the labor cost sum to the full success-adjusted labor cost, so
\* that undiscounted (wacc = 0) the labor PV is that cost, and for wacc >= 0
\* and non-negative labor the labor PV never exceeds it.
C30_SlicesConserve ==
    \A i \in Insts :
        LaborComputed(i) =>
            \A k \in 1..n_simulations[i] :
                (/\ frame[i].timeline_samples[k] > YearUnits
                 /\ frame[i].core_params.wacc >= 0
                 /\ AdjustedLabor(i, k) >= 0) =>
                    /\ frame[i].labor_cost_pv[k] <= AdjustedLabor(i, k)
                    /\ frame[i].core_params.wacc = 0 =>
                          frame[i].labor_cost_pv[k] = AdjustedLabor(i, k)

\* C30 amended: the slices sum to the full success-adjusted labor cost up
\* to the rounding of the floating-point operations, one unit in the last
\* place for each slice at most, and for wacc >= 0 and non-negative labor the
\* labor PV exceeds the nominal amount by no more than that.
C30_SlicesConserveRounded ==
    \A i \in Insts :
        LaborComputed(i) =>
            \A k \in 1..n_simulations[i] :
                LET labor == AdjustedLabor(i, k)
                    slices == frame[i].timeline_samples[k] \div YearUnits + 1
                IN  (/\ frame[i].timeline_samples[k] > YearUnits
                     /\ frame[i].core_params.wacc >= 0
                     /\ labor >= 0) =>
                        /\ frame[i].labor_cost_pv[k] <= labor + slices * Ulp(labor)
                        /\ frame[i].core_params.wacc = 0 =>
                              Abs(frame[i].labor_cost_pv[k] - labor)
                                  <= slices * Ulp(labor)

\* an undiscounted build with a partial last year has been costed, within
\* one unit in the last place of its nominal amount
C30_Witness ==
    \E i \in Insts :
        /\ Done(i)
        /\ frame[i].timeline_samples[1] > YearUnits
        /\ frame[i].timeline_samples[1] % YearUnits # 0
        /\ frame[i].core_params.wacc = 0
        /\ AdjustedLabor(i, 1) > 0
        /\ Abs(frame[i].labor_cost_pv[1] - AdjustedLabor(i, 1))
               <= Ulp(AdjustedLabor(i, 1))
====
